---------------------------- MODULE Spec2Model ----------------------------
(***************************************************************************)
(* A model of nf (src/main.go): a terminal task manager.  One TaskManager  *)
(* holds the SQLite table `tasks`, the forest rebuilt from it by           *)
(* loadTasks, the flat view used for navigation, the cursor and scroll     *)
(* offset, and the buffers of the add / add-subtask / edit modes.  Each    *)
(* action is one pass of the input loop: one event handled to completion.  *)
(*                                                                         *)
(* Text is a sequence of one-character strings, so that formatting,        *)
(* splitting, trimming and parsing are computed character by character.    *)
(*                                                                         *)
(* Modelling decisions about the program's environment:                    *)
(*  - SQLite enforces a FOREIGN KEY clause only on a connection that turns *)
(*    foreign keys on; initDB opens "tasks.db" without doing so, so the    *)
(*    ON DELETE CASCADE of the schema does nothing and a DELETE removes    *)
(*    exactly the rows its WHERE clause names.                             *)
(*  - created_at is CURRENT_TIMESTAMP, whole seconds: two inserts may fall *)
(*    in the same second.  loadTasks scans it into a string and parses     *)
(*    the string with the layout "2006-01-02 15:04:05", discarding the     *)
(*    error.  The text scanned is made by the driver and database/sql,     *)
(*    not by src/: go-sqlite3 hands a DATETIME column over as a time.Time, *)
(*    which Scan writes into a string as RFC 3339 ("2006-01-02T15:04:05Z") *)
(*    so that the parse fails and CreatedAt is the zero time.  The model   *)
(*    allows both outcomes of the parse at every load.                     *)
(*  - loadTasks collects the rows in a Go map and sorts with sort.Slice:   *)
(*    the order of siblings that tie on priority and creation time is      *)
(*    any order.                                                           *)
(*  - a statement of a command may fail (fail = TRUE); the SELECT of       *)
(*    loadTasks is taken to succeed.                                       *)
(***************************************************************************)
EXTENDS Integers, Sequences, FiniteSets

\* ------------------------------------------------------------ bounds
\* Rows ever inserted (AUTOINCREMENT never reuses an id) under Spec and
\* SpecView.
MaxTasks == 2
\* Rows ever inserted under SpecDeep.
MaxDeepTasks == 3
\* Longest title or priority typed in a creation flow under SpecText; an
\* edit buffer may be typed three characters longer.
MaxLen == 1
\* Rows ever inserted under SpecStored, which starts from a data file that
\* holds two rows or four.
MaxStoredTasks == 3
\* How far a runaway half-page jump may carry the cursor outside the view.
MaxDrift == 1

\* ------------------------------------------------------------ text
NULL == 0

Digits == <<"0", "1", "2", "3", "4", "5", "6", "7", "8", "9">>

IsDigit(c) == \E i \in 1..10 : Digits[i] = c

DigitVal(c) == (CHOOSE i \in 1..10 : Digits[i] = c) - 1

RECURSIVE DigitsVal(_)
DigitsVal(s) ==
    IF s = <<>> THEN 0
    ELSE 10 * DigitsVal(SubSeq(s, 1, Len(s) - 1)) + DigitVal(s[Len(s)])

\* strconv.Atoi: an optional sign, then one or more decimal digits.  The
\* result is [err, val]; the buffers of this model are far too short to
\* overflow an int.
Atoi(s) ==
    LET body == IF s # <<>> /\ s[1] \in {"+", "-"} THEN Tail(s) ELSE s
        neg  == s # <<>> /\ s[1] = "-"
    IN  IF body = <<>> \/ \E i \in 1..Len(body) : ~IsDigit(body[i])
        THEN [err |-> TRUE, val |-> 0]
        ELSE [err |-> FALSE,
              val |-> IF neg THEN 0 - DigitsVal(body) ELSE DigitsVal(body)]

RECURSIVE NatToStr(_)
NatToStr(n) ==
    IF n < 10 THEN <<Digits[n + 1]>>
    ELSE NatToStr(n \div 10) \o <<Digits[(n % 10) + 1]>>

\* fmt's %d.
IntToStr(n) == IF n < 0 THEN <<"-">> \o NatToStr(0 - n) ELSE NatToStr(n)

IsSpace(c) == c = " "

RECURSIVE TrimLeft(_)
TrimLeft(s) ==
    IF s # <<>> /\ IsSpace(Head(s)) THEN TrimLeft(Tail(s)) ELSE s

RECURSIVE TrimRight(_)
TrimRight(s) ==
    IF s # <<>> /\ IsSpace(s[Len(s)])
    THEN TrimRight(SubSeq(s, 1, Len(s) - 1)) ELSE s

\* strings.TrimSpace
TrimSpace(s) == TrimRight(TrimLeft(s))

\* A split that gives two parts whether or not there is a colon.
SplitTwoAlways(s) == <<s, <<>>>>

\* strings.SplitN(s, ":", 2): the text around the first colon, or s alone.
SplitN2(s) ==
    IF \E i \in 1..Len(s) : s[i] = ":"
    THEN LET k == CHOOSE i \in 1..Len(s) :
                     s[i] = ":" /\ \A j \in 1..(i - 1) : s[j] # ":"
         IN  <<SubSeq(s, 1, k - 1), SubSeq(s, k + 1, Len(s))>>
    ELSE <<s>>

\* s[:len(s)-1]
DropLast(s) == SubSeq(s, 1, Len(s) - 1)

\* ------------------------------------------------------------ state
VARIABLES
    db,             \* the rows of table tasks: id -> [title, priority, created_at, parent_id]
    nextId,         \* the id AUTOINCREMENT gives the next row
    now,            \* CURRENT_TIMESTAMP, in seconds
    height,         \* the terminal's height, as termbox.Size() reports it
    tasks,          \* tm.tasks: the root tasks, in order
    taskMap,        \* the Task objects of the last loadTasks, by id
    flatView,       \* tm.flatView
    currentIndex,   \* tm.currentIndex
    scrollOffset,   \* tm.scrollOffset
    editMode,       \* tm.editMode
    editBuffer,     \* tm.editBuffer
    statusMsg,      \* tm.statusMsg: <<>> or <<template, arguments...>>
    inputMode,      \* tm.inputMode: "", "add" or "addsubtask"
    inputStep,      \* tm.inputStep
    inputTitle,     \* tm.inputTitle
    inputPriority,  \* tm.inputPriority
    pc              \* the loop of Run: "running", "exited" or "panicked"

vars == <<db, nextId, now, height, tasks, taskMap, flatView, currentIndex,
          scrollOffset, editMode, editBuffer, statusMsg, inputMode, inputStep,
          inputTitle, inputPriority, pc>>

storeVars == <<db, nextId, now>>
viewVars  == <<tasks, taskMap, flatView, currentIndex, scrollOffset>>
modeVars  == <<editMode, editBuffer, inputMode, inputStep, inputTitle, inputPriority>>

\* ------------------------------------------------------------ forest
\* The zero time.Time, before every time of the store.
ZeroTime == -1

\* The comparison of sortTasks: higher priority first, then earlier creation.
Less(a, b) ==
    IF a.Priority # b.Priority
    THEN a.Priority > b.Priority
    ELSE a.CreatedAt < b.CreatedAt

\* The row of id i as loadTasks scans it into a Task; parsed: time.Parse
\* accepted the text of created_at.  Children is filled by Hierarchy.
ScanRow(d, i, parsed) ==
    [ID |-> i, Title |-> d[i].title, Priority |-> d[i].priority,
     CreatedAt |-> IF parsed THEN d[i].created_at ELSE ZeroTime,
     ParentID |-> d[i].parent_id,
     Children |-> <<>>, IsExpanded |-> TRUE]

\* What sort.Slice may leave: the elements of S in an order in which no
\* element is Less than one before it.
sortTasks(d, S, parsed) ==
    {s \in [1..Cardinality(S) -> S] :
        /\ \A i, j \in 1..Cardinality(S) : i # j => s[i] # s[j]
        /\ \A i, j \in 1..Cardinality(S) :
              i < j => ~Less(ScanRow(d, s[j], parsed), ScanRow(d, s[i], parsed))}

\* "Build hierarchy": a task without parent is a root; a task whose parent
\* is in taskMap is appended to that parent's Children; any other task is
\* appended nowhere.  ord gives the sorted order of the tasks.
Hierarchy(d, ord, parsed) ==
    LET IsRoot(i)  == d[i].parent_id = NULL
        kids(p)    == LET IsKid(i) == d[i].parent_id = p IN SelectSeq(ord, IsKid)
    IN  [tasks   |-> SelectSeq(ord, IsRoot),
         taskMap |-> [i \in DOMAIN d |->
                        [ScanRow(d, i, parsed) EXCEPT !.Children = kids(i)]]]

\* loadTasks: every forest it may build from the rows d.
loadTasks(d) ==
    UNION {{Hierarchy(d, ord, parsed) : ord \in sortTasks(d, DOMAIN d, parsed)} :
              parsed \in BOOLEAN}

\* buildFlatView without the test of IsExpanded.
RECURSIVE buildFlatViewAll(_, _)
buildFlatViewAll(ts, M) ==
    IF ts = <<>> THEN <<>>
    ELSE LET t == M[Head(ts)]
         IN  <<t.ID>>
             \o (IF Len(t.Children) > 0
                 THEN buildFlatViewAll(t.Children, M) ELSE <<>>)
             \o buildFlatViewAll(Tail(ts), M)

\* buildFlatView: pre-order, entering the children of expanded tasks only.
RECURSIVE buildFlatView(_, _)
buildFlatView(ts, M) ==
    IF ts = <<>> THEN <<>>
    ELSE LET t == M[Head(ts)]
         IN  <<t.ID>>
             \o (IF t.IsExpanded /\ Len(t.Children) > 0
                 THEN buildFlatView(t.Children, M) ELSE <<>>)
             \o buildFlatView(Tail(ts), M)

\* adjustScroll scrolling down one row too few.
adjustScrollShort(ci, so, n, h) ==
    LET maxVisibleTasks == h - 4
        s1 == IF ci < so THEN ci
              ELSE IF ci >= so + maxVisibleTasks THEN ci - maxVisibleTasks
              ELSE so
        s2 == IF s1 > n - maxVisibleTasks THEN n - maxVisibleTasks ELSE s1
    IN  IF maxVisibleTasks <= 0 THEN so
        ELSE IF s2 < 0 THEN 0 ELSE s2

\* adjustScroll: the new scrollOffset for cursor ci, offset so, n rows and
\* terminal height h.
adjustScroll(ci, so, n, h) ==
    LET maxVisibleTasks == h - 4
        s1 == IF ci < so THEN ci
              ELSE IF ci >= so + maxVisibleTasks THEN ci - maxVisibleTasks + 1
              ELSE so
        s2 == IF s1 > n - maxVisibleTasks THEN n - maxVisibleTasks ELSE s1
    IN  IF maxVisibleTasks <= 0 THEN so
        ELSE IF s2 < 0 THEN 0 ELSE s2

\* The cursor as rebuildFlatView clamps it for a view of n rows.
ClampIndex(ci, n) ==
    LET c1 == IF ci >= n THEN n - 1 ELSE ci
    IN  IF c1 < 0 THEN 0 ELSE c1

\* A rebuild that sends the cursor to the first row.
RebuildFlatViewToTop(ts, M) ==
    LET fv == buildFlatView(ts, M)
    IN  /\ flatView' = fv
        /\ currentIndex' = 0
        /\ scrollOffset' = adjustScroll(0, scrollOffset, Len(fv), height)

\* rebuildFlatView over the forest (ts, M).
RebuildFlatView(ts, M) ==
    LET fv == buildFlatView(ts, M)
        ci == ClampIndex(currentIndex, Len(fv))
    IN  /\ flatView' = fv
        /\ currentIndex' = ci
        /\ scrollOffset' = adjustScroll(ci, scrollOffset, Len(fv), height)

\* loadTasks(); rebuildFlatView() after the rows became d.
Reload(d) ==
    \E ld \in loadTasks(d) :
        /\ tasks' = ld.tasks
        /\ taskMap' = ld.taskMap
        /\ RebuildFlatView(ld.tasks, ld.taskMap)

\* (height - 4) / 2 with Go's division, which truncates toward zero.
HalfPage(h) ==
    IF h - 4 >= 0 THEN (h - 4) \div 2 ELSE 0 - ((4 - h) \div 2)

\* The guard the handlers put before flatView[currentIndex].
HasSelection == Len(flatView) > 0 /\ currentIndex < Len(flatView)

\* flatView[currentIndex] panics when the index is negative.
IndexPanics == currentIndex < 0

\* The task of the first row, wherever the cursor is.
SelectedFirst == taskMap[flatView[1]]

\* flatView[currentIndex]
Selected == taskMap[flatView[currentIndex + 1]]

Panic == pc' = "panicked" /\ UNCHANGED <<db, nextId, now, height, tasks, taskMap,
             flatView, currentIndex, scrollOffset, editMode, editBuffer, statusMsg,
             inputMode, inputStep, inputTitle, inputPriority>>

\* NewTaskManager on a fresh data file, then termbox.Init.
Init(heights) ==
    /\ db = <<>>
    /\ nextId = 1
    /\ now = 0
    /\ height \in heights
    /\ tasks = <<>>
    /\ taskMap = <<>>
    /\ flatView = <<>>
    /\ currentIndex = 0
    /\ scrollOffset = 0
    /\ editMode = FALSE
    /\ editBuffer = <<>>
    /\ statusMsg = <<>>
    /\ inputMode = ""
    /\ inputStep = 0
    /\ inputTitle = <<>>
    /\ inputPriority = <<>>
    /\ pc = "running"

\* NewTaskManager on a data file that holds the rows d, then termbox.Init:
\* loadTasks and rebuildFlatView run with the cursor and the offset at 0.
InitStored(stores, heights) ==
    /\ db \in stores
    /\ nextId = Cardinality(DOMAIN db) + 1
    /\ now = Cardinality(DOMAIN db)
    /\ height \in heights
    /\ \E ld \in loadTasks(db) :
          /\ tasks = ld.tasks
          /\ taskMap = ld.taskMap
          /\ flatView = buildFlatView(ld.tasks, ld.taskMap)
    /\ currentIndex = 0
    /\ scrollOffset = 0
    /\ editMode = FALSE
    /\ editBuffer = <<>>
    /\ statusMsg = <<>>
    /\ inputMode = ""
    /\ inputStep = 0
    /\ inputTitle = <<>>
    /\ inputPriority = <<>>
    /\ pc = "running"

\* ------------------------------------------------------------ store
\* The clamp without its upper limit.
ClampPriorityNoUpper(p) == IF p < 1 THEN 1 ELSE p

\* The clamp of updateTaskPriority and of handleEditMode.
ClampPriority(p) ==
    LET p1 == IF p < 1 THEN 1 ELSE p
    IN  IF p1 > 100 THEN 100 ELSE p1

\* INSERT INTO tasks (title, priority[, parent_id]) at second t.
InsertRow(d, id, title, priority, parent, t) ==
    [i \in DOMAIN d \cup {id} |->
        IF i = id
        THEN [title |-> title, priority |-> priority, created_at |-> t,
              parent_id |-> parent]
        ELSE d[i]]

\* DELETE FROM tasks WHERE id = ? OR parent_id = ?
DeleteRows(d, id) ==
    [i \in {k \in DOMAIN d : ~(k = id \/ d[k].parent_id = id)} |-> d[i]]

\* UPDATE tasks SET title = ?, priority = ? WHERE id = ?
UpdateRow(d, id, title, priority) ==
    [i \in DOMAIN d |->
        IF i = id THEN [d[i] EXCEPT !.title = title, !.priority = priority]
        ELSE d[i]]

\* The UPDATE of the priority without its WHERE clause.
UpdatePriorityEveryRow(d, id, priority) ==
    [i \in DOMAIN d |-> [d[i] EXCEPT !.priority = priority]]

\* UPDATE tasks SET priority = ? WHERE id = ?
UpdatePriorityRow(d, id, priority) ==
    [i \in DOMAIN d |->
        IF i = id THEN [d[i] EXCEPT !.priority = priority] ELSE d[i]]

\* ------------------------------------------------------------ commands
\* deleteTask(taskID); fail: the DELETE returns an error.  msg is the
\* status line at the call, which an error return leaves as it is.
deleteTask(taskID, fail, msg) ==
    IF fail
    THEN UNCHANGED <<db, viewVars>> /\ statusMsg' = msg
    ELSE /\ db' = DeleteRows(db, taskID)
         /\ statusMsg' = <<"Deleted task ID", taskID>>
         /\ Reload(db')

\* updateTask(taskID, title, priority); fail: the UPDATE returns an error.
updateTask(taskID, title, priority, fail, msg) ==
    IF fail
    THEN UNCHANGED <<db, viewVars>> /\ statusMsg' = msg
    ELSE /\ db' = UpdateRow(db, taskID, title, priority)
         /\ statusMsg' = <<"Updated task ID", taskID>>
         /\ Reload(db')

\* updateTaskPriority(taskID, priorityChange); fail: the SELECT or the
\* UPDATE returns an error (the SELECT also does when the row is gone).
updateTaskPriority(taskID, priorityChange, fail, msg) ==
    IF fail \/ taskID \notin DOMAIN db
    THEN UNCHANGED <<db, viewVars>> /\ statusMsg' = msg
    ELSE LET currentPriority == db[taskID].priority
             newPriority == ClampPriority(currentPriority + priorityChange)
         IN  /\ db' = UpdatePriorityRow(db, taskID, newPriority)
             /\ statusMsg' = <<"Updated task priority", currentPriority, newPriority>>
             /\ Reload(db')

\* addTask(title, priority, parentID) at second t; fail: the INSERT returns
\* an error, which handleInputMode puts in the status line.
addTask(title, priority, parentID, t, fail) ==
    IF fail
    THEN UNCHANGED <<db, nextId, now, viewVars>> /\ statusMsg' = <<"Error adding task">>
    ELSE /\ db' = InsertRow(db, nextId, title, priority, parentID, t)
         /\ nextId' = nextId + 1
         /\ now' = t
         /\ statusMsg' = <<"Added task", title, nextId>>
         /\ Reload(db')

\* ------------------------------------------------------------ events
Normal == pc = "running" /\ ~editMode /\ inputMode = ""
Input  == pc = "running" /\ ~editMode /\ inputMode # ""
Edit   == pc = "running" /\ editMode

\* A non-key event (the terminal is resized): handleInput does nothing.
Resize(B) ==
    /\ pc = "running"
    /\ \E h \in B.heights : h # height /\ height' = h
    /\ UNCHANGED <<storeVars, viewVars, modeVars, statusMsg, pc>>

\* 'q' or Ctrl-C
KeyQuit ==
    /\ Normal
    /\ statusMsg' = <<>>
    /\ pc' = "exited"
    /\ UNCHANGED <<storeVars, height, viewVars, modeVars>>

\* What is left of handleNormalMode when no case acts: the status line
\* is cleared.
NoCase == statusMsg' = <<>> /\ UNCHANGED <<storeVars, height, viewVars, modeVars, pc>>

\* A key handleNormalMode has no case for.
KeyOther == Normal /\ NoCase

\* The cursor moves to ci and adjustScroll runs.
MoveTo(ci) ==
    /\ currentIndex' = ci
    /\ scrollOffset' = adjustScroll(ci, scrollOffset, Len(flatView), height)
    /\ statusMsg' = <<>>
    /\ UNCHANGED <<storeVars, height, tasks, taskMap, flatView, modeVars, pc>>

InDrift(ci) == 0 - MaxDrift <= ci /\ ci <= Len(flatView) + MaxDrift

\* Ctrl-D: scrollHalfPageDown
KeyCtrlD ==
    /\ Normal
    /\ LET c1 == currentIndex + HalfPage(height)
           c2 == IF c1 >= Len(flatView) THEN Len(flatView) - 1 ELSE c1
       IN  InDrift(c2) /\ MoveTo(c2)

\* Ctrl-U: scrollHalfPageUp
KeyCtrlU ==
    /\ Normal
    /\ LET c1 == currentIndex - HalfPage(height)
           c2 == IF c1 < 0 THEN 0 ELSE c1
       IN  InDrift(c2) /\ MoveTo(c2)

\* 'j'
KeyDown ==
    /\ Normal
    /\ IF currentIndex < Len(flatView) - 1
       THEN MoveTo(currentIndex + 1)
       ELSE NoCase

\* 'k'
KeyUp ==
    /\ Normal
    /\ IF currentIndex > 0
       THEN MoveTo(currentIndex - 1)
       ELSE NoCase

\* 'g'
KeyFirst == Normal /\ MoveTo(0)

\* 'G'
KeyLast == Normal /\ MoveTo(Len(flatView) - 1)

\* Space: toggle the selected task when it has children.
KeyToggle ==
    /\ Normal
    /\ IF ~HasSelection THEN NoCase
       ELSE IF IndexPanics THEN Panic
       ELSE IF Len(Selected.Children) = 0 THEN NoCase
       ELSE /\ taskMap' = [taskMap EXCEPT ![Selected.ID].IsExpanded = ~@]
            /\ RebuildFlatView(tasks, taskMap')
            /\ statusMsg' = <<>>
            /\ UNCHANGED <<storeVars, height, tasks, modeVars, pc>>

\* 'J' (delta = -1) and 'K' (delta = +1); the result of updateTaskPriority
\* is dropped.
KeyPriorityWith(delta, fail) ==
    /\ Normal
    /\ IF ~HasSelection THEN NoCase
       ELSE IF IndexPanics THEN Panic
       ELSE /\ updateTaskPriority(Selected.ID, delta, fail, <<>>)
            /\ UNCHANGED <<nextId, now, height, modeVars, pc>>

KeyPriority(B) ==
    /\ HasSelection /\ ~IndexPanics => db[Selected.ID].priority \in B.adjustFrom
    /\ \E delta \in {-1, 1}, fail \in BOOLEAN : KeyPriorityWith(delta, fail)

\* 'd'; the result of deleteTask is dropped.
KeyDeleteWith(fail) ==
    /\ Normal
    /\ IF ~HasSelection THEN NoCase
       ELSE IF IndexPanics THEN Panic
       ELSE /\ deleteTask(Selected.ID, fail, <<>>)
            /\ UNCHANGED <<nextId, now, height, modeVars, pc>>

KeyDelete == \E fail \in BOOLEAN : KeyDeleteWith(fail)

\* 'a'
KeyAdd(B) ==
    /\ Normal
    /\ nextId <= B.maxTasks
    /\ inputMode' = "add"
    /\ inputStep' = 0
    /\ inputTitle' = <<>>
    /\ inputPriority' = <<>>
    /\ statusMsg' = <<>>
    /\ UNCHANGED <<storeVars, height, viewVars, editMode, editBuffer, pc>>

\* 's'
KeySubtask(B) ==
    /\ Normal
    /\ nextId <= B.maxTasks
    /\ IF ~HasSelection THEN NoCase
       ELSE /\ inputMode' = "addsubtask"
            /\ inputStep' = 0
            /\ inputTitle' = <<>>
            /\ inputPriority' = <<>>
            /\ statusMsg' = <<>>
            /\ UNCHANGED <<storeVars, height, viewVars, editMode, editBuffer, pc>>

\* 'e'
KeyEdit ==
    /\ Normal
    /\ IF ~HasSelection THEN NoCase
       ELSE IF IndexPanics THEN Panic
       ELSE /\ editMode' = TRUE
            /\ editBuffer' = Selected.Title \o <<":">> \o IntToStr(Selected.Priority)
            /\ statusMsg' = <<>>
            /\ UNCHANGED <<storeVars, height, viewVars, inputMode, inputStep,
                           inputTitle, inputPriority, pc>>

\* ------------------------------------------------------------ creation
\* A reset that leaves the two buffers as they are.
ResetInputKeepsBuffers ==
    /\ inputMode' = ""
    /\ inputStep' = 0
    /\ UNCHANGED <<inputTitle, inputPriority>>

\* The four assignments that end a creation flow.
ResetInput ==
    /\ inputMode' = ""
    /\ inputStep' = 0
    /\ inputTitle' = <<>>
    /\ inputPriority' = <<>>

\* Esc
InputEsc ==
    /\ Input
    /\ ResetInput
    /\ UNCHANGED <<storeVars, height, viewVars, editMode, editBuffer, statusMsg, pc>>

\* The priority a creation flow gives the buffer s: the number in it when
\* it parses and lies in 1..100, and 50 otherwise.
InputPriorityOf(s) ==
    LET a == Atoi(s)
    IN  IF s # <<>> /\ ~a.err /\ a.val >= 1 /\ a.val <= 100 THEN a.val ELSE 50

\* A check of the title that rejects nothing.
TitleRejectedNever(title) == FALSE

\* The check of the title at step 0.
TitleRejected(title) == title = <<>>

\* Enter; t: the second of the insert; fail: the INSERT returns an error.
InputEnterWith(t, fail) ==
    /\ Input
    /\ IF inputStep = 0
       THEN IF TitleRejected(inputTitle)
            THEN /\ statusMsg' = <<"Task title cannot be empty">>
                 /\ UNCHANGED <<storeVars, height, viewVars, modeVars, pc>>
            ELSE /\ inputStep' = 1
                 /\ UNCHANGED <<storeVars, height, viewVars, editMode, editBuffer,
                                inputMode, inputTitle, inputPriority, statusMsg, pc>>
       ELSE IF inputMode = "addsubtask" /\ HasSelection /\ IndexPanics THEN Panic
       ELSE LET priority == InputPriorityOf(inputPriority)
                parentID == IF inputMode = "addsubtask" /\ HasSelection
                            THEN Selected.ID ELSE NULL
            IN  /\ addTask(inputTitle, priority, parentID, t, fail)
                /\ ResetInput
                /\ UNCHANGED <<height, editMode, editBuffer, pc>>

InputEnter(B) ==
    \E t \in {now + k : k \in B.ticks}, fail \in BOOLEAN : InputEnterWith(t, fail)

\* Backspace
InputBackspace ==
    /\ Input
    /\ IF inputStep = 0
       THEN /\ inputTitle' = IF Len(inputTitle) > 0 THEN DropLast(inputTitle) ELSE inputTitle
            /\ UNCHANGED inputPriority
       ELSE /\ inputPriority' = IF Len(inputPriority) > 0 THEN DropLast(inputPriority)
                                ELSE inputPriority
            /\ UNCHANGED inputTitle
    /\ UNCHANGED <<storeVars, height, viewVars, editMode, editBuffer, inputMode,
                   inputStep, statusMsg, pc>>

\* The space key (c = " ") or a character key c.
InputChar(B) ==
    /\ Input
    /\ \E c \in B.chars :
          IF inputStep = 0
          THEN /\ Len(inputTitle) < B.maxLen
               /\ inputTitle' = inputTitle \o <<c>>
               /\ UNCHANGED inputPriority
          ELSE /\ Len(inputPriority) < B.maxLen
               /\ inputPriority' = inputPriority \o <<c>>
               /\ UNCHANGED inputTitle
    /\ UNCHANGED <<storeVars, height, viewVars, editMode, editBuffer, inputMode,
                   inputStep, statusMsg, pc>>

\* ------------------------------------------------------------ edit
\* An Esc that leaves the text of the edit buffer.
EditEscKeepsBuffer ==
    /\ Edit
    /\ editMode' = FALSE
    /\ UNCHANGED <<storeVars, height, viewVars, editBuffer, inputMode, inputStep,
                   inputTitle, inputPriority, statusMsg, pc>>

\* Esc
EditEsc ==
    /\ Edit
    /\ editMode' = FALSE
    /\ editBuffer' = <<>>
    /\ UNCHANGED <<storeVars, height, viewVars, inputMode, inputStep, inputTitle,
                   inputPriority, statusMsg, pc>>

\* The priority of the edit buffer without the clamp.
EditPriorityUnclamped(s, old) ==
    IF Atoi(TrimSpace(s)).err THEN old ELSE Atoi(TrimSpace(s)).val

\* The priority handleEditMode takes from the text after the colon, for a
\* task whose priority is old.
EditPriorityOf(s, old) ==
    LET a == Atoi(TrimSpace(s))
    IN  ClampPriority(IF a.err THEN old ELSE a.val)

\* Enter; the result of updateTask is dropped.  fail: the UPDATE returns
\* an error.
EditEnterWith(fail) ==
    /\ Edit
    /\ IF HasSelection /\ IndexPanics THEN Panic
       ELSE /\ IF HasSelection /\ Len(SplitN2(editBuffer)) = 2
               THEN LET parts == SplitN2(editBuffer)
                    IN  updateTask(Selected.ID, TrimSpace(parts[1]),
                                   EditPriorityOf(parts[2], Selected.Priority),
                                   fail, statusMsg)
               ELSE UNCHANGED <<db, viewVars, statusMsg>>
            /\ editMode' = FALSE
            /\ editBuffer' = <<>>
            /\ UNCHANGED <<nextId, now, height, inputMode, inputStep, inputTitle,
                           inputPriority, pc>>

EditEnter == \E fail \in BOOLEAN : EditEnterWith(fail)

\* Backspace
EditBackspace ==
    /\ Edit
    /\ Len(editBuffer) > 0
    /\ editBuffer' = DropLast(editBuffer)
    /\ UNCHANGED <<storeVars, height, viewVars, editMode, inputMode, inputStep,
                   inputTitle, inputPriority, statusMsg, pc>>

\* A character key.  The space key has Ch = 0 and no case of its own here:
\* it adds nothing.
EditChar(B) ==
    /\ Edit
    /\ Len(editBuffer) < B.maxEdit
    /\ \E c \in B.chars \ {" "} : editBuffer' = editBuffer \o <<c>>
    /\ UNCHANGED <<storeVars, height, viewVars, editMode, inputMode, inputStep,
                   inputTitle, inputPriority, statusMsg, pc>>

\* ------------------------------------------------------------ specifications
\* One pass of the loop of Run under the bounds B.
Step(B) ==
    \/ Resize(B)
    \/ KeyQuit
    \/ KeyOther
    \/ KeyCtrlD
    \/ KeyCtrlU
    \/ KeyDown
    \/ KeyUp
    \/ KeyFirst
    \/ KeyLast
    \/ KeyToggle
    \/ KeyPriority(B)
    \/ KeyDelete
    \/ KeyAdd(B)
    \/ KeySubtask(B)
    \/ KeyEdit
    \/ InputEsc
    \/ InputEnter(B)
    \/ InputBackspace
    \/ InputChar(B)
    \/ EditEsc
    \/ EditEnter
    \/ EditBackspace
    \/ EditChar(B)

\* The bounds of a specification:
\*   maxTasks    rows ever inserted
\*   maxLen      a creation buffer this long takes no further character
\*   maxEdit     an edit buffer this long takes no further character
\*   chars       the character keys pressed in the creation and edit modes
\*   heights     the terminal heights
\*   adjustFrom  the stored priorities at which 'J' and 'K' are pressed
\*   ticks       the seconds that may pass before an insert
\* Trees: one-character texts, every insert in a second of its own.
TreeBounds(n) ==
    [maxTasks |-> n, maxLen |-> 1, maxEdit |-> 1, chars |-> {"1"},
     heights |-> {5, 6}, adjustFrom |-> {1}, ticks |-> {1}]

\* The view: as TreeBounds, with a terminal too low to show any row (2),
\* one row (5) or two rows (6), and no ties.
ViewBounds ==
    [maxTasks |-> MaxTasks, maxLen |-> 1, maxEdit |-> 1, chars |-> {"1"},
     heights |-> {2, 5, 6}, adjustFrom |-> {1}, ticks |-> {1}]

\* Text: one task, digits, the colon and the space.
TextBounds ==
    [maxTasks |-> 1, maxLen |-> MaxLen, maxEdit |-> MaxLen + 3,
     chars |-> {"1", "0", ":", " "}, heights |-> {5, 6},
     adjustFrom |-> {1, 100}, ticks |-> {1}]

Next == Step(TreeBounds(MaxTasks))
Spec == Init(TreeBounds(MaxTasks).heights) /\ [][Next]_vars

NextDeep == Step(TreeBounds(MaxDeepTasks))
SpecDeep == Init(TreeBounds(MaxDeepTasks).heights) /\ [][NextDeep]_vars

NextView == Step(ViewBounds)
SpecView == Init(ViewBounds.heights) /\ [][NextView]_vars

NextText == Step(TextBounds)
SpecText == Init(TextBounds.heights) /\ [][NextText]_vars

\* Data files left by earlier runs: rows 1..n, row i inserted in second i.
\* Two tasks with priorities at the ends of the range, the second a root or
\* a child of the first; and a root with two children beside another root.
StoredRow(title, priority, parent, t) ==
    [title |-> title, priority |-> priority, created_at |-> t, parent_id |-> parent]

Stores ==
    {<<StoredRow(<<"1">>, p1, NULL, 1), StoredRow(<<"1">>, p2, par, 2)>> :
        p1 \in {1, 100}, p2 \in {1, 100}, par \in {NULL, 1}}
    \cup {<<StoredRow(<<"1">>, 50, NULL, 1), StoredRow(<<"1">>, 50, 1, 2),
            StoredRow(<<"1">>, 50, 1, 3), StoredRow(<<"1">>, 50, NULL, 4)>>}

\* Stored: as TreeBounds, started from Stores, with 'J' and 'K' pressed at
\* both ends of the range.
StoredBounds ==
    [maxTasks |-> MaxStoredTasks, maxLen |-> 1, maxEdit |-> 1, chars |-> {"1"},
     heights |-> {5, 6}, adjustFrom |-> {1, 100}, ticks |-> {1}]

NextStored == Step(StoredBounds)
SpecStored == InitStored(Stores, StoredBounds.heights) /\ [][NextStored]_vars

\* ------------------------------------------------------------ claims
\* The elements of a sequence.
Range(s) == {s[i] : i \in 1..Len(s)}

\* The rows whose parent chain in d leads to id.
RECURSIVE Descendants(_, _)
Descendants(d, id) ==
    LET kids == {k \in DOMAIN d : d[k].parent_id = id}
    IN  kids \cup UNION {Descendants(d, k) : k \in kids}

\* C1: in every state of the running loop the cursor is an index of the
\* flat view when the view has rows, and 0 when it has none.
C1_CursorValid ==
    pc = "running" =>
        IF Len(flatView) > 0
        THEN 0 <= currentIndex /\ currentIndex < Len(flatView)
        ELSE currentIndex = 0

\* C2: a step that removes a row from the store removes with it every row
\* whose parent chain leads to that row.
C2_DeleteCascades ==
    [][\A id \in DOMAIN db :
          id \notin DOMAIN db' =>
              \A k \in Descendants(db, id) : k \notin DOMAIN db']_vars

\* How often x occurs in the sequence s.
Count(s, x) == Cardinality({i \in 1..Len(s) : s[i] = x})

\* How often x occurs in the forest the last loadTasks built: among the
\* roots and in the Children of the tasks reachable from them.
RECURSIVE CountIn(_, _)
CountIn(ts, x) ==
    IF ts = <<>> THEN 0
    ELSE (IF Head(ts) = x THEN 1 ELSE 0)
         + CountIn(taskMap[Head(ts)].Children, x) + CountIn(Tail(ts), x)

\* C3: every row of the store is in the forest exactly once: a row without
\* parent, or whose parent is no row, is a root; any other row is in the
\* Children of the task its parent_id names.
C3_EveryRowInForest ==
    \A i \in DOMAIN db :
        /\ CountIn(tasks, i) = 1
        /\ IF db[i].parent_id = NULL \/ db[i].parent_id \notin DOMAIN db
           THEN Count(tasks, i) = 1
           ELSE Count(taskMap[db[i].parent_id].Children, i) = 1

\* C4: no row of the store has the empty title.
C4_TitlesNonEmpty == \A i \in DOMAIN db : db[i].title # <<>>

\* C5: every row of the store has a priority from 1 to 100.
C5_PrioritiesInRange ==
    \A i \in DOMAIN db : 1 <= db[i].priority /\ db[i].priority <= 100

\* 'K' pressed on a task of priority 100 left it at 100.
C5_Witness ==
    /\ statusMsg = <<"Updated task priority", 100, 100>>
    /\ \E i \in DOMAIN db : db[i].priority = 100

\* The siblings L are in order: of two neighbours the first has the higher
\* priority, or the same priority and a creation time that is not later.
SortedSiblings(L) ==
    \A k \in 1..(Len(L) - 1) :
        LET a == db[L[k]]
            b == db[L[k + 1]]
        IN  \/ a.priority > b.priority
            \/ a.priority = b.priority /\ a.created_at <= b.created_at

\* C6: the roots and the children of every task are in order by the
\* priorities and creation times of the store.
C6_SiblingsSorted ==
    /\ SortedSiblings(tasks)
    /\ \A i \in DOMAIN taskMap : SortedSiblings(taskMap[i].Children)

\* Task i is a root, or a child of an expanded task that is itself shown.
RECURSIVE Shown(_)
Shown(i) ==
    \/ Count(tasks, i) > 0
    \/ LET p == taskMap[i].ParentID
       IN  /\ p # NULL
           /\ p \in DOMAIN taskMap
           /\ taskMap[p].IsExpanded
           /\ Count(taskMap[p].Children, i) > 0
           /\ Shown(p)

\* Task x is task a or has a among its ancestors.
RECURSIVE UnderOrSelf(_, _)
UnderOrSelf(x, a) ==
    \/ x = a
    \/ LET p == taskMap[x].ParentID
       IN  p # NULL /\ p \in DOMAIN taskMap /\ UnderOrSelf(p, a)

\* The place of x in the flat view.
Pos(x) == CHOOSE k \in 1..Len(flatView) : flatView[k] = x

\* C7: the flat view is the pre-order walk of the forest that skips what
\* lies under a collapsed task: the shown tasks are in it once each and no
\* other task is; a task comes after its parent; and all that is shown of
\* a task's subtree comes before every later sibling of that task.
C7_FlatViewPreorder ==
    /\ Range(flatView) \subseteq DOMAIN taskMap
    /\ \A i \in DOMAIN taskMap :
          Count(flatView, i) = IF Shown(i) THEN 1 ELSE 0
    /\ \A x \in Range(flatView) :
          LET p == taskMap[x].ParentID
          IN  p # NULL => p \in Range(flatView) /\ Pos(p) < Pos(x)
    /\ \A L \in {tasks} \cup {taskMap[i].Children : i \in DOMAIN taskMap} :
          \A k, m \in 1..Len(L) :
              k < m /\ L[m] \in Range(flatView) =>
                  \A x \in Range(flatView) :
                      UnderOrSelf(x, L[k]) => Pos(x) < Pos(L[m])

\* A collapsed task is in the flat view and its child is not.
C7_Witness ==
    \E i \in Range(flatView) :
        /\ ~taskMap[i].IsExpanded
        /\ Len(taskMap[i].Children) > 0
        /\ taskMap[i].Children[1] \notin Range(flatView)

\* A step of a handler in which adjustScroll runs: a cursor key, a toggle
\* that rebuilds the flat view, or a command that succeeded and reloaded.
AdjustScrollCalled ==
    \/ KeyCtrlD \/ KeyCtrlU \/ KeyFirst \/ KeyLast
    \/ currentIndex < Len(flatView) - 1 /\ KeyDown
    \/ currentIndex > 0 /\ KeyUp
    \/ /\ Normal /\ HasSelection /\ ~IndexPanics
       /\ \/ Len(Selected.Children) > 0 /\ KeyToggle
          \/ KeyDeleteWith(FALSE)
          \/ \E delta \in {-1, 1} : KeyPriorityWith(delta, FALSE)
    \/ /\ Edit /\ HasSelection /\ ~IndexPanics
       /\ Len(SplitN2(editBuffer)) = 2
       /\ EditEnterWith(FALSE)
    \/ /\ Input /\ inputStep = 1
       /\ ~(inputMode = "addsubtask" /\ HasSelection /\ IndexPanics)
       /\ \E t \in {now, now + 1} : InputEnterWith(t, FALSE)

\* The rows the terminal has room for.
WindowHeight == height - 4

\* 0 <= scrollOffset <= max(0, totalLength - windowHeight)
ScrollInBounds ==
    /\ 0 <= scrollOffset
    /\ scrollOffset <= IF Len(flatView) - WindowHeight > 0
                       THEN Len(flatView) - WindowHeight ELSE 0

\* scrollOffset <= currentIndex < scrollOffset + windowHeight
CursorInWindow ==
    scrollOffset <= currentIndex /\ currentIndex < scrollOffset + WindowHeight

\* What a run of adjustScroll in the present state would leave.
AdjustedHere ==
    adjustScroll(currentIndex, scrollOffset, Len(flatView), height)

WriteFails ==
    \/ /\ Normal /\ HasSelection /\ ~IndexPanics
       /\ \/ KeyDeleteWith(TRUE)
          \/ \E delta \in {-1, 1} : KeyPriorityWith(delta, TRUE)
    \/ /\ Edit /\ HasSelection /\ ~IndexPanics
       /\ Len(SplitN2(editBuffer)) = 2
       /\ EditEnterWith(TRUE)

\* C9: when the write of an edit, a delete or a priority adjustment fails,
\* the status line reports it, the loop goes on in normal mode, and the
\* forest and the flat view are as before.
C9_FailureReported ==
    [][WriteFails =>
          /\ statusMsg' # <<>>
          /\ pc' = "running" /\ ~editMode' /\ inputMode' = ""
          /\ UNCHANGED <<tasks, taskMap, flatView>>]_vars

\* C10: Enter at step 0 of a creation flow with an empty title sets the
\* status line and leaves the mode, the step, the buffers and the store
\* as they are.
C10_EmptyTitleRejected ==
    [][(/\ Input /\ inputStep = 0 /\ inputTitle = <<>>
        /\ \E t \in {now, now + 1}, fail \in BOOLEAN : InputEnterWith(t, fail))
       => /\ statusMsg' = <<"Task title cannot be empty">>
          /\ UNCHANGED <<inputMode, inputStep, inputTitle, inputPriority,
                         editMode, db, nextId, pc>>]_vars

\* The subtask flow rejected an empty title and is still at step 0.
C10_Witness ==
    /\ Input /\ inputMode = "addsubtask" /\ inputStep = 0 /\ inputTitle = <<>>
    /\ statusMsg = <<"Task title cannot be empty">>

\* A step in which Enter at step 1 of a creation flow inserts a row.
CreateConfirms ==
    /\ Input /\ inputStep = 1
    /\ ~(inputMode = "addsubtask" /\ HasSelection /\ IndexPanics)
    /\ \E t \in {now, now + 1} : InputEnterWith(t, FALSE)

\* The priority a creation flow owes the buffer s: the integer in it when
\* it parses to one from 1 to 100, and 50 otherwise.
OwedPriority(s) ==
    IF ~Atoi(s).err /\ 1 <= Atoi(s).val /\ Atoi(s).val <= 100
    THEN Atoi(s).val ELSE 50

\* Row a of the store d sorts strictly before row b.
SortsBefore(d, a, b) ==
    \/ d[a].priority > d[b].priority
    \/ d[a].priority = d[b].priority /\ d[a].created_at < d[b].created_at

\* Task x is in the sibling list L once, and no task of L is on the wrong
\* side of it by the rows of d.
PlacedBySortOrder(d, L, x) ==
    /\ Count(L, x) = 1
    /\ \A k, m \in 1..Len(L) :
          k < m /\ (L[k] = x \/ L[m] = x) => ~SortsBefore(d, L[m], L[k])

\* The step adds one row, with the title of the title buffer and the
\* priority owed to the priority buffer, keeps every other row, and ends in
\* normal mode.
CreatedAsEntered ==
    /\ nextId \notin DOMAIN db
    /\ DOMAIN db' = DOMAIN db \cup {nextId}
    /\ \A i \in DOMAIN db : db'[i] = db[i]
    /\ db'[nextId].title = inputTitle
    /\ db'[nextId].priority = OwedPriority(inputPriority)
    /\ ~editMode' /\ inputMode' = ""
    /\ inputMode = "add" => db'[nextId].parent_id = NULL

\* C11: Enter at step 1 of a creation flow adds exactly one task, with the
\* title of the title buffer and the priority of the priority buffer when
\* that parses to 1..100 and 50 otherwise; the mode is normal afterwards,
\* and in the root flow the new task is a root, placed among the roots by
\* priority descending and creation time ascending.
C11_CreateConfirm ==
    [][CreateConfirms =>
          /\ CreatedAsEntered
          /\ inputMode = "add" => PlacedBySortOrder(db', tasks', nextId)]_vars

\* C11 without the place among the roots.
C11_RowCreated == [][CreateConfirms => CreatedAsEntered]_vars

\* C12: Esc at step 0 or step 1 of a creation flow leads to normal mode
\* with both buffers empty and the step 0, and leaves the store, the
\* forest, the flat view, the cursor and the scroll offset as they are.
C12_CreateCancel ==
    [][InputEsc =>
          /\ ~editMode' /\ inputMode' = ""
          /\ inputTitle' = <<>> /\ inputPriority' = <<>> /\ inputStep' = 0
          /\ UNCHANGED <<db, nextId, tasks, taskMap, flatView, currentIndex,
                         scrollOffset>>]_vars

\* A subtask flow at step 1 with text in both buffers, where Esc may come.
C12_Witness ==
    /\ Input /\ inputMode = "addsubtask" /\ inputStep = 1
    /\ inputTitle # <<>> /\ inputPriority # <<>>

\* A step in which Enter in edit mode finds a colon in the buffer and the
\* UPDATE succeeds.
EditConfirms ==
    /\ Edit /\ HasSelection /\ ~IndexPanics
    /\ ":" \in Range(editBuffer)
    /\ EditEnterWith(FALSE)

\* p brought into 1..100.
Into1To100(p) == IF p < 1 THEN 1 ELSE IF p > 100 THEN 100 ELSE p

\* C13: Enter in edit mode with a colon in the buffer gives the selected
\* task the trimmed text before the first colon as its title, and as its
\* priority the trimmed text after it read as an integer, or the task's
\* priority when that does not parse, brought into 1..100; no other row
\* changes and the mode is normal afterwards.
C13_EditConfirm ==
    [][EditConfirms =>
          LET id == flatView[currentIndex + 1]
          IN  \E k \in 1..Len(editBuffer) :
                 LET left  == SubSeq(editBuffer, 1, k - 1)
                     right == Atoi(TrimSpace(SubSeq(editBuffer, k + 1, Len(editBuffer))))
                 IN  /\ editBuffer[k] = ":" /\ ":" \notin Range(left)
                     /\ DOMAIN db' = DOMAIN db
                     /\ db'[id] = [db[id] EXCEPT
                            !.title = TrimSpace(left),
                            !.priority = Into1To100(IF right.err THEN db[id].priority
                                                    ELSE right.val)]
                     /\ \A i \in DOMAIN db \ {id} : db'[i] = db[i]
                     /\ ~editMode' /\ inputMode' = ""]_vars

\* An edit has set a priority of 100.
C13_Witness ==
    /\ Normal
    /\ statusMsg = <<"Updated task ID", 1>>
    /\ db[1].priority = 100

\* A step in which Esc, or Enter with no colon in the buffer, ends edit mode.
EditDiscards ==
    \/ EditEsc
    \/ /\ ":" \notin Range(editBuffer)
       /\ \E fail \in BOOLEAN : EditEnterWith(fail)

\* C14: Enter in edit mode with no colon in the buffer, and Esc with any
\* buffer, change neither the store nor the forest nor the flat view, empty
\* the edit buffer and lead to normal mode.
C14_EditDiscarded ==
    [][EditDiscards =>
          /\ UNCHANGED <<db, nextId, tasks, taskMap, flatView>>
          /\ editBuffer' = <<>>
          /\ ~editMode' /\ inputMode' = ""]_vars

\* Edit mode with a buffer that has text and no colon.
C14_Witness ==
    /\ Edit
    /\ editBuffer # <<>>
    /\ ":" \notin Range(editBuffer)

\* A step in which 'J' (delta = -1) or 'K' (delta = 1) adjusts the selected
\* task and the statements succeed.
AdjustStep(delta) ==
    /\ Normal /\ HasSelection /\ ~IndexPanics
    /\ KeyPriorityWith(delta, FALSE)

\* C15: a priority adjustment by +1 or -1 sets the stored priority of the
\* selected task to its old value plus the delta, brought into 1..100, and
\* changes nothing else of that row and nothing of any other row; at 100
\* upward and at 1 downward the priority stays.
C15_AdjustClamped ==
    [][\A delta \in {-1, 1} :
          AdjustStep(delta) =>
              LET id == flatView[currentIndex + 1]
              IN  /\ DOMAIN db' = DOMAIN db
                  /\ db'[id] = [db[id] EXCEPT
                         !.priority = Into1To100(db[id].priority + delta)]
                  /\ \A i \in DOMAIN db \ {id} : db'[i] = db[i]]_vars

\* 'J' pressed on a task of priority 1, beside a task of priority 100, left
\* it at 1.
C15_Witness ==
    /\ statusMsg = <<"Updated task priority", 1, 1>>
    /\ \E i, j \in DOMAIN db : db[i].priority = 1 /\ db[j].priority = 100

\* The Space key on a selected task.
ToggleKey == Normal /\ HasSelection /\ ~IndexPanics /\ KeyToggle

\* The tasks below task id in the forest, and those of them in the flat view.
DescendantCount(id) ==
    Cardinality({x \in DOMAIN taskMap : x # id /\ UnderOrSelf(x, id)})

ShownDescendantCount(id) ==
    Cardinality({x \in Range(flatView) : x # id /\ UnderOrSelf(x, id)})

\* The flat view and the cursor that the Space key leaves when pressed in
\* the present state on a selected task with children.
ToggledView ==
    buildFlatView(tasks,
        [taskMap EXCEPT ![flatView[currentIndex + 1]].IsExpanded = ~@])

ToggledIndex == ClampIndex(currentIndex, Len(ToggledView))

\* The Space key does what ToggledView and ToggledIndex say, and on a task
\* without children changes nothing of the forest and the view.
ToggleAsComputed ==
    ToggleKey =>
        IF Len(Selected.Children) > 0
        THEN flatView' = ToggledView /\ currentIndex' = ToggledIndex
        ELSE UNCHANGED <<db, tasks, taskMap, flatView, currentIndex, scrollOffset>>

\* Collapsing the selected task takes n rows from the flat view and leaves
\* the cursor; a second toggle gives back the first view and the cursor.
CollapseTakes(n) ==
    /\ Len(flatView') = Len(flatView) - n
    /\ currentIndex' = currentIndex
    /\ ToggledView' = flatView
    /\ ToggledIndex' = currentIndex

CollapseKey == ToggleKey /\ Len(Selected.Children) > 0 /\ Selected.IsExpanded

\* C16 as claimed: collapsing the selected task takes as many rows from the
\* flat view as the task has descendants; a second toggle restores the
\* view; the cursor stays; a toggle on a task without children changes
\* nothing.
C16_ToggleAllDescendants ==
    [][/\ ToggleAsComputed
       /\ CollapseKey =>
             CollapseTakes(DescendantCount(flatView[currentIndex + 1]))]_vars

\* C16: collapsing the selected task takes from the flat view the
\* descendants of the task that were in it, which are fewer than all its
\* descendants when one of them is collapsed; a second toggle restores the
\* view; the cursor stays; a toggle on a task without children changes
\* nothing.
C16_ToggleShownDescendants ==
    [][/\ ToggleAsComputed
       /\ CollapseKey =>
             CollapseTakes(ShownDescendantCount(flatView[currentIndex + 1]))]_vars

\* A collapsed task in the view has a collapsed child with children: the
\* child was collapsed first, then the task.
C16_Witness ==
    \E i \in Range(flatView) :
        /\ ~taskMap[i].IsExpanded
        /\ \E k \in 1..Len(taskMap[i].Children) :
              LET c == taskMap[taskMap[i].Children[k]]
              IN  ~c.IsExpanded /\ Len(c.Children) > 0

\* A step in which 'd' deletes the selected task and the DELETE succeeds.
DeleteStep ==
    /\ Normal /\ HasSelection /\ ~IndexPanics
    /\ KeyDeleteWith(FALSE)

\* C17: deleting the selected task never lengthens the flat view; the view
\* loses at most one row more than the task has descendants, and exactly
\* that many when every descendant was in the view.
C17_DeleteShortensView ==
    [][DeleteStep =>
          LET id == flatView[currentIndex + 1]
          IN  /\ Len(flatView') <= Len(flatView)
              /\ Len(flatView) - Len(flatView') <= 1 + DescendantCount(id)
              /\ ShownDescendantCount(id) = DescendantCount(id) =>
                    Len(flatView) - Len(flatView') = 1 + DescendantCount(id)]_vars

\* C18: at every render (the loop of Run draws the state before each
\* event) with rows in the view, room for at least one row, and the cursor
\* on a row, that row is inside the window drawn.
C18_SelectedRowDrawn ==
    /\ pc = "running"
    /\ Len(flatView) > 0
    /\ WindowHeight >= 1
    /\ 0 <= currentIndex /\ currentIndex < Len(flatView)
    => CursorInWindow

\* C19: entering a creation flow leaves the flat view, the cursor and the
\* store as they are; while the flow lasts they and the variant stay as
\* they are, whatever the events; and the row that the final Enter inserts
\* has as parent the task under the cursor in the subtask flow and no
\* parent in the root flow.  So the parent is the task that was selected
\* when the flow was entered.
C19_SubtaskParent ==
    [][/\ inputMode = "" /\ inputMode' # "" =>
             UNCHANGED <<flatView, currentIndex, db>>
       /\ inputMode # "" /\ inputMode' # "" =>
             UNCHANGED <<flatView, currentIndex, inputMode, db>>
       /\ CreateConfirms =>
             db'[nextId].parent_id =
                 IF inputMode = "addsubtask"
                 THEN flatView[currentIndex + 1] ELSE NULL]_vars

\* A subtask was added under the task of the second row.
C19_Witness ==
    /\ Len(statusMsg) = 3 /\ statusMsg[1] = "Added task"
    /\ db[statusMsg[3]].parent_id = 2
    /\ db[2].parent_id = NULL

SeedOf(id) == db[id].title \o <<":">> \o IntToStr(db[id].priority)

\* A step in which Enter in edit mode finds the buffer as it was seeded for
\* the selected task, and the UPDATE succeeds.
SeedConfirmed ==
    /\ EditConfirms
    /\ editBuffer = SeedOf(flatView[currentIndex + 1])

\* C21: Enter on the edit buffer as it was seeded leaves the title and the
\* priority of the selected task in the store as they were, whatever the
\* title.
C21_SeedRoundTrip ==
    [][SeedConfirmed =>
          LET id == flatView[currentIndex + 1]
          IN  /\ db'[id].title = db[id].title
              /\ db'[id].priority = db[id].priority]_vars

\* C21 for the titles that have no colon and neither begin nor end with a
\* space; and for every title, the priority.
C21_PlainTitleRoundTrip ==
    [][SeedConfirmed =>
          LET id == flatView[currentIndex + 1]
              t  == db[id].title
          IN  /\ db'[id].priority = db[id].priority
              /\ (/\ ":" \notin Range(t)
                  /\ (t # <<>> => t[1] # " " /\ t[Len(t)] # " "))
                 => db'[id].title = t]_vars
=============================================================================
